---- MODULE Spec2Model ----
(***************************************************************************)
(* execute_query of python_scripts/run_queries.py (the two copies of the   *)
(* script have the same execute_query, lines 12-44).                       *)
(*                                                                         *)
(* One call of execute_query is a walk of pc over the lines of the         *)
(* function.  Every call the function makes to the outside (psycopg2       *)
(* connect, print, pandas read_sql, tabulate, conn.close) either completes *)
(* or raises an Exception; a raise inside the try block (lines 15-40)      *)
(* transfers control to the handler at line 43.  The handler's own print   *)
(* is outside any try block.                                               *)
(***************************************************************************)
EXTENDS Naturals, Sequences, FiniteSets

VARIABLES
    pc,          \* position of the running call: "idle", "L17", ..., "L43", "done"
    query,       \* parameter query of the running call
    description, \* parameter description of the running call
    conn,        \* local conn: "unbound", "open", "closed"
    df,          \* local df (the rows read_sql returned; <<>> until line 30 ran)
    exc,         \* the message of the exception caught at line 42 ("" if none)
    raisedAt,    \* the line of the try block that raised ("none" if none)
    out,         \* what the running call has printed, in order
    result,      \* how the call ended: kind "pending", "df", "None", "raised"
    opens,       \* connections the running call has opened
    closes,      \* connections the running call has closed
    live,        \* connection handles open in the process, over all calls
    calls,       \* calls started so far
    first        \* the record of the first completed call (history variable)

vars == <<pc, query, description, conn, df, exc, raisedAt, out, result,
          opens, closes, live, calls, first>>

----------------------------------------------------------------------------
(* Bounds of the model *)

\* calls of execute_query in one run of the process
MaxCalls == 3

\* rows of the largest result set the engine returns, beyond the display cap
ExtraRows == 2

(* Program constants *)

\* df.head(20)
HeadLimit == 20

MaxRows == HeadLimit + ExtraRows

\* sizes of the result sets of the well-formed statements
RowCounts == {0, 1, HeadLimit, HeadLimit + 1, MaxRows}

\* the statements a caller passes: a rejected one, and well-formed ones
\* told apart by the rows the engine returns for them
Queries == {[wf |-> FALSE, n |-> 0]} \cup {[wf |-> TRUE, n |-> k] : k \in RowCounts}

\* description="Query" is the default of the parameter
Descriptions == {"Query", "RANKING HIGH SPENDING CUSTOMERS"}

Min(a, b) == IF a < b THEN a ELSE b

----------------------------------------------------------------------------
(* The collaborators *)

\* the rows the engine returns for a well-formed statement, in result order
EngineRows(q) == [i \in 1..q.n |-> i]

\* read_sql on a session shared between calls: the statement is also rejected
\* when an earlier call left its session open (the faulty variant C9 excludes)
read_sql_raises_shared_session(q) == ~q.wf \/ live > 1

\* pd.read_sql(query, conn) raises when the engine rejects the statement
read_sql_raises(q) == ~q.wf

\* pd.read_sql(query, conn): all returned rows, materialised
read_sql(q) == EngineRows(q)

\* df without .head(20): every row goes to the table (the faulty variant C6
\* excludes)
head_uncapped(rows) == rows

\* df.head(20): the first 20 rows, or all of them when there are fewer
head(rows) == SubSeq(rows, 1, Min(HeadLimit, Len(rows)))

\* one printed item
Tok(kind, text, rows, n) == [kind |-> kind, text |-> text, rows |-> rows, n |-> n]

RuleTop == Tok("rule_top", "", <<>>, 0)
Label(d) == Tok("label", d, <<>>, 0)
RuleBottom == Tok("rule_bottom", "", <<>>, 0)
Table(rows) == Tok("table", "", head(rows), 0)
Count(rows) == Tok("count", "", <<>>, Len(rows))
Notice == Tok("notice", "", <<>>, 0)
ErrorLine(e) == Tok("error", e, <<>>, 0)

Pending == [kind |-> "pending", rows |-> <<>>]
NoCall == [set |-> FALSE, query |-> [wf |-> FALSE, n |-> 0], description |-> "",
           raisedAt |-> "none", result |-> Pending, out |-> <<>>]

----------------------------------------------------------------------------
Init ==
    /\ pc = "idle"
    /\ query = [wf |-> FALSE, n |-> 0]
    /\ description = "Query"
    /\ conn = "unbound"
    /\ df = <<>>
    /\ exc = ""
    /\ raisedAt = "none"
    /\ out = <<>>
    /\ result = Pending
    /\ opens = 0
    /\ closes = 0
    /\ live = 0
    /\ calls = 0
    /\ first = NoCall

\* a statement of the try block raises: control goes to the handler, line 42
Raise(line, msg) ==
    /\ pc' = "L43"
    /\ exc' = msg
    /\ raisedAt' = line

\* the call is over: it returned r, or left by an exception
Finish(r) ==
    /\ pc' = "done"
    /\ result' = r
    /\ first' = IF first.set THEN first
                ELSE [set |-> TRUE, query |-> query, description |-> description,
                      raisedAt |-> raisedAt, result |-> r, out |-> out']

\* execute_query(query, description) is called: fresh locals
Call ==
    /\ pc \in {"idle", "done"}
    /\ calls < MaxCalls
    /\ \E q \in Queries, d \in Descriptions :
        /\ query' = q
        /\ description' = d
    /\ pc' = "L17"
    /\ conn' = "unbound"
    /\ df' = <<>>
    /\ exc' = ""
    /\ raisedAt' = "none"
    /\ out' = <<>>
    /\ result' = Pending
    /\ opens' = 0
    /\ closes' = 0
    /\ calls' = calls + 1
    /\ UNCHANGED <<live, first>>

\* line 17: conn = psycopg2.connect(...)
Connect ==
    /\ pc = "L17"
    /\ \/ /\ conn' = "open"
          /\ opens' = opens + 1
          /\ live' = live + 1
          /\ pc' = "L25"
          /\ UNCHANGED <<exc, raisedAt>>
       \/ /\ Raise("L17", "connect")
          /\ UNCHANGED <<conn, opens, live>>
    /\ UNCHANGED <<query, description, df, out, result, closes, calls, first>>

\* a print of the try block: the item is written, or print raises
TryPrint(line, item, next) ==
    /\ \/ /\ out' = Append(out, item)
          /\ pc' = next
          /\ UNCHANGED <<exc, raisedAt>>
       \/ /\ Raise(line, "display")
          /\ UNCHANGED out
    /\ UNCHANGED <<query, description, conn, df, result, opens, closes, live,
                   calls, first>>

\* lines 25-27: the header
PrintRuleTop ==
    /\ pc = "L25"
    /\ TryPrint("L25", RuleTop, "L26")

PrintLabel ==
    /\ pc = "L26"
    /\ TryPrint("L26", Label(description), "L27")

PrintRuleBottom ==
    /\ pc = "L27"
    /\ TryPrint("L27", RuleBottom, "L30")

\* line 30: df = pd.read_sql(query, conn); line 33: if len(df) > 0
ReadSql ==
    /\ pc = "L30"
    /\ IF read_sql_raises(query)
       THEN /\ Raise("L30", "query")
            /\ UNCHANGED df
       ELSE /\ df' = read_sql(query)
            /\ pc' = IF Len(df') > 0 THEN "L34" ELSE "L37"
            /\ UNCHANGED <<exc, raisedAt>>
    /\ UNCHANGED <<query, description, conn, out, result, opens, closes, live,
                   calls, first>>

\* lines 34, 35, 37: the display
PrintTable ==
    /\ pc = "L34"
    /\ TryPrint("L34", Table(df), "L35")

PrintCount ==
    /\ pc = "L35"
    /\ TryPrint("L35", Count(df), "L39")

PrintNotice ==
    /\ pc = "L37"
    /\ TryPrint("L37", Notice, "L39")

\* line 39: conn.close(); line 40: return df.  A close that raises has not
\* released the handle.
Close ==
    /\ pc = "L39"
    /\ \/ /\ conn' = "closed"
          /\ closes' = closes + 1
          /\ live' = live - 1
          /\ out' = out
          /\ Finish([kind |-> "df", rows |-> df])
          /\ UNCHANGED <<exc, raisedAt>>
       \/ /\ Raise("L39", "close")
          /\ UNCHANGED <<conn, closes, live, out, result, first>>
    /\ UNCHANGED <<query, description, df, opens, calls>>

\* lines 42-44: except Exception as e: print(error line); return None
Except ==
    /\ pc = "L43"
    /\ \/ /\ out' = Append(out, ErrorLine(exc))
          /\ Finish([kind |-> "None", rows |-> <<>>])
       \/ /\ out' = out
          /\ Finish([kind |-> "raised", rows |-> <<>>])
    /\ UNCHANGED <<query, description, conn, df, exc, raisedAt, opens, closes,
                   live, calls>>

\* handles the running call still refers to through its local conn
Referenced == IF pc \notin {"idle", "done"} /\ conn = "open" THEN 1 ELSE 0

\* a handle no variable refers to any more (conn of a call that ended without
\* conn.close()) is closed by the runtime when it reclaims the object; when
\* that happens is up to the runtime
Finalize ==
    /\ live > Referenced
    /\ live' = live - 1
    /\ UNCHANGED <<pc, query, description, conn, df, exc, raisedAt, out, result,
                   opens, closes, calls, first>>

Next ==
    \/ Call
    \/ Connect
    \/ PrintRuleTop
    \/ PrintLabel
    \/ PrintRuleBottom
    \/ ReadSql
    \/ PrintTable
    \/ PrintCount
    \/ PrintNotice
    \/ Close
    \/ Except
    \/ Finalize

Spec == Init /\ [][Next]_vars

----------------------------------------------------------------------------
(* What the claims speak about *)

Done == pc = "done"

\* the items of kind k the running call has printed
Printed(k) == {i \in DOMAIN out : out[i].kind = k}

HasTable == Printed("table") # {} \/ Printed("count") # {}
HasError == Printed("error") # {}
HasNotice == Printed("notice") # {}

\* the call printed the whole header, in order, as its first three items
HeaderFirst ==
    /\ Len(out) >= 3
    /\ out[1].kind = "rule_top"
    /\ out[2].kind = "label"
    /\ out[2].text = description
    /\ out[3].kind = "rule_bottom"

\* the statement was executed by the engine and its rows were fetched
Executed == raisedAt \in {"none", "L34", "L35", "L37", "L39"}

\* the fault the surroundings injected into a call that raised at line l: a
\* raise of read_sql is the engine's answer to the statement, not a fault of
\* the surroundings
Fault(l) == IF l = "L30" THEN "none" ELSE l

----------------------------------------------------------------------------
\* C1: when a call of execute_query is over, whatever its outcome, the
\* number of connections it opened equals the number it closed.
C1_NoHandleLeftOpen == Done => opens = closes

\* C2: every call of execute_query ends by returning a value (df or None) to
\* its caller; no exception leaves the function.
C2_AlwaysReturns == Done => result.kind \in {"df", "None"}

\* C3: the output of a finished call is exactly one of: a table followed by
\* a row-count message; a single error line; the 'no results' notice.
C3_OneOutcome ==
    Done =>
        /\ (HasTable /\ ~HasError /\ ~HasNotice)
           \/ (~HasTable /\ HasError /\ ~HasNotice)
           \/ (~HasTable /\ ~HasError /\ HasNotice)
        /\ HasTable =>
            /\ Cardinality(Printed("table")) = 1
            /\ Cardinality(Printed("count")) = 1
            /\ \A i \in Printed("table") : \A j \in Printed("count") : i < j
        /\ Cardinality(Printed("error")) <= 1
        /\ Cardinality(Printed("notice")) <= 1

\* C4: a call whose connection was opened (the target is reachable) and whose
\* statement is well-formed returns the result set, not None, and its row
\* count is the number of rows the engine returned for the statement.
C4_SuccessReturnsRows ==
    (Done /\ opens = 1 /\ query.wf) =>
        /\ result.kind = "df"
        /\ Len(result.rows) = query.n

\* C5: a call in which opening the connection or executing the statement
\* failed returns None, hands no rows to the caller, displays neither a
\* table nor a row-count message, and made no second attempt to connect.
C5_FailureYieldsNothing ==
    (Done /\ raisedAt \in {"L17", "L30"}) =>
        /\ result.kind = "None"
        /\ result.rows = <<>>
        /\ ~HasTable
        /\ opens <= 1

\* C6: the table of a result with row_count rows shows exactly
\* min(row_count, 20) rows, the first ones in result order, and the
\* row-count message reports row_count itself, also above 20; a returned
\* non-empty result was displayed so.
C6_DisplayCap ==
    /\ \A i \in Printed("table") :
        /\ Len(out[i].rows) = (IF Len(df) > 20 THEN 20 ELSE Len(df))
        /\ \A k \in 1..Len(out[i].rows) : out[i].rows[k] = df[k]
    /\ \A i \in Printed("count") : out[i].n = Len(df)
    /\ (Done /\ result.kind = "df" /\ Len(result.rows) > 0) =>
        /\ result.rows = df
        /\ Cardinality(Printed("table")) = 1
        /\ Cardinality(Printed("count")) = 1

C6_Witness ==
    /\ Done
    /\ result.kind = "df"
    /\ Len(result.rows) > 20
    /\ \E i \in Printed("table") : Len(out[i].rows) = 20
    /\ \E i \in Printed("count") : out[i].n = Len(result.rows)

\* C7: a statement that was executed and matched zero rows yields the empty
\* result set (not None), and the display is the 'no results' notice, with
\* no table and no row-count message.
C7_EmptyResult ==
    (Done /\ Executed /\ query.wf /\ query.n = 0) =>
        /\ result = [kind |-> "df", rows |-> <<>>]
        /\ HasNotice
        /\ ~HasTable

\* C8: at most one connection is open at any time, over any sequence of
\* calls.
C8_AtMostOneOpen == live <= 1

C10_HeaderOrder ==
    /\ (Printed("rule_top") \cup Printed("label") \cup Printed("rule_bottom")) # {}
         => opens = 1
    /\ pc \in {"L25", "L26", "L27"} => (conn = "open" /\ df = <<>>)
    /\ (HasTable \/ HasNotice) => HeaderFirst
    /\ (Done /\ raisedAt = "L17") => out = <<ErrorLine("connect")>>

====
